---------------------------- MODULE Spec2Model ----------------------------
(***************************************************************************)
(* Model of the quantum-harmonic-oscillator solvers:                       *)
(*   - the shooting-method root search of mt.py and of methode_tir.py      *)
(*     (generateur_cadre, trouver_premiers_cadres,                         *)
(*     trouver_premieres_racines) and its entry point                      *)
(*     OHQ_wrapper.solutions_mt;                                           *)
(*   - the finite-element grid of mef.py (Grille and its mass and          *)
(*     Laplacian matrices).                                                *)
(*                                                                         *)
(* Numbers.  Trial energies are integers counted in hundredths (the        *)
(* default step D = -0.01 is -1, the default ceiling val_max = 10 is       *)
(* 1000).  A tolerance or a matrix entry is a fraction <<num, den>>; a     *)
(* fraction whose den is 0 stands for the result of a division by zero.    *)
(* A scalar function func is a record [w, t]: func(x) is the entry of the  *)
(* table t for the cell of width w that holds x, the table repeating.      *)
(***************************************************************************)
EXTENDS Integers, Sequences, FiniteSets, TLC

VARIABLES
    pc,            \* position of the running call
    func,          \* the scalar function whose roots are searched
    arg,           \* arguments given to trouver_premieres_racines / solutions_mt
    loc,           \* parameters and val_0 of the running trouver_premiers_cadres
    liste_cadres,  \* trouver_premiers_cadres: the brackets found so far
    cadre,         \* trouver_premiers_cadres: result of its last generateur_cadre call
    fenetres,      \* history: the set of generateur_cadre calls made, with their results
    cadres,        \* trouver_premieres_racines: value returned by the scan
    racines,       \* trouver_premieres_racines: roots refined so far
    i_racine,      \* trouver_premieres_racines: index i of its for loop
    erreur,        \* the exception that ended the call, "" when none
    table,         \* solutions_mt: shape of fonctions_propres, <<>> before
    points,        \* the array given to Grille
    grille,        \* Grille.points, <<>> before construction
    masse,         \* value of the last matrice_masse_interne() call
    laplacien      \* value of the last matrice_laplacienne_interne() call

vars == <<pc, func, arg, loc, liste_cadres, cadre, fenetres, cadres, racines,
          i_racine, erreur, table, points, grille, masse, laplacien>>

tir_vars == <<pc, func, arg, loc, liste_cadres, cadre, fenetres, cadres, racines,
              i_racine, erreur, table>>

mef_vars == <<points, grille, masse, laplacien>>

-----------------------------------------------------------------------------
(* Bounds of the model *)

\* entries of a function's table
TblLen == 4
\* largest number of roots asked for
MaxN == 2
\* largest max_iter given by a caller of mt.py
MaxIter == 3
\* largest val_max given by a caller of mt.py
MaxValMax == 4
\* largest number of points of a grid
MaxPoints == 5
\* largest coordinate of a grid point
MaxCoord == 4

-----------------------------------------------------------------------------
(* Program constants *)

\* numpy.isclose's default absolute tolerance, 1e-8 = AtolNum / AtolDen
AtolNum == 1
AtolDen == 100000000

\* methode_tir.trouver_premiers_cadres: `len(liste_cadres) < 6`
HardN == 6
\* methode_tir.trouver_premieres_racines: D=-0.01, in hundredths
HardD == -1
\* methode_tir.trouver_premieres_racines: max_iter=20
HardMaxIter == 20
\* methode_tir.trouver_premieres_racines: val_max=10, in hundredths
HardValMax == 1000
\* methode_tir.trouver_premieres_racines: rtol=0.1
HardRtol == <<1, 10>>

-----------------------------------------------------------------------------
(* Helpers *)

Abs(x) == IF x < 0 THEN -x ELSE x

Min(a, b) == IF a <= b THEN a ELSE b

Max(a, b) == IF a >= b THEN a ELSE b

\* func(x): the call of the scalar function
Eval(f, x) == f.t[((x \div f.w) % Len(f.t)) + 1]

\* np.isclose(a, b, rtol=rtol): |a - b| <= atol + rtol * |b|, both sides
\* multiplied by rtol's denominator; the integer on the left is at most
\* atol times that denominator
isclose(a, b, rtol) ==
    rtol[2] * Abs(a - b) - rtol[1] * Abs(b) <= (rtol[2] * AtolNum) \div AtolDen

\* None, as returned by generateur_cadre
None == <<>>

\* no matrix has been computed yet
PasDeMatrice == [n |-> -1, e |-> <<>>]

-----------------------------------------------------------------------------
(* mt.py / methode_tir.py: generateur_cadre (the two files hold the same code) *)

\* boucle_cadre with the loop test `i <= max_iter`: one probe too many
RECURSIVE boucle_cadre_un_de_trop(_, _, _, _, _, _, _, _)
boucle_cadre_un_de_trop(f, val_0, D, rtol, max_iter, f_0, i, probes) ==
    IF i <= max_iter
    THEN LET i_1 == i + 1
             val_1 == val_0 + i_1 * D
             f_1 == Eval(f, val_1)
         IN  IF isclose(-f_0, f_1, rtol)
             THEN [cadre |-> <<val_0, val_1>>, probes |-> Append(probes, val_1)]
             ELSE boucle_cadre_un_de_trop(f, val_0, D, rtol, max_iter, f_0, i_1,
                                          Append(probes, val_1))
    ELSE [cadre |-> None, probes |-> probes]

\* the while loop of generateur_cadre, entered with counter i; probes is the
\* list of the points at which func has been called since f_0 was computed
RECURSIVE boucle_cadre(_, _, _, _, _, _, _, _)
boucle_cadre(f, val_0, D, rtol, max_iter, f_0, i, probes) ==
    IF i < max_iter
    THEN LET i_1 == i + 1
             val_1 == val_0 + i_1 * D
             f_1 == Eval(f, val_1)
         IN  IF isclose(-f_0, f_1, rtol)
             THEN [cadre |-> <<val_0, val_1>>, probes |-> Append(probes, val_1)]
             ELSE boucle_cadre(f, val_0, D, rtol, max_iter, f_0, i_1,
                               Append(probes, val_1))
    ELSE [cadre |-> None, probes |-> probes]

\* generateur_cadre(func, val_0, D, rtol, max_iter): the value returned (a
\* bracket or None) and the points probed
generateur_cadre(f, val_0, D, rtol, max_iter) ==
    boucle_cadre(f, val_0, D, rtol, max_iter, Eval(f, val_0), 0, <<>>)

-----------------------------------------------------------------------------
(* mt.py: trouver_premiers_cadres and trouver_premieres_racines *)

\* trouver_premieres_racines, lines 181-184: the scan is called with the
\* caller's own D, rtol, max_iter and val_max
mt_parametres(a) ==
    [val_0 |-> a.val_0, N |-> a.N, D |-> a.D, rtol |-> a.rtol,
     max_iter |-> a.max_iter, val_max |-> a.val_max]

mt_appel ==
    /\ pc = "appel"
    /\ racines' = <<>>
    /\ loc' = mt_parametres(arg)
    /\ liste_cadres' = <<>>
    /\ pc' = "balayage"
    /\ UNCHANGED <<func, arg, cadre, fenetres, cadres, i_racine, erreur, table>>
    /\ UNCHANGED mef_vars

\* the condition of the while loop of trouver_premiers_cadres
mt_condition(l, liste) == l.val_0 < l.val_max /\ Len(liste) < l.N

\* loop head, condition true: generateur_cadre is called on the window
mt_essai ==
    /\ pc = "balayage"
    /\ mt_condition(loc, liste_cadres)
    /\ cadre' = generateur_cadre(func, loc.val_0, loc.D, loc.rtol, loc.max_iter)
    /\ fenetres' = fenetres \cup {[val_0 |-> loc.val_0, cadre |-> cadre'.cadre]}
    /\ pc' = "corps"
    /\ UNCHANGED <<func, arg, loc, liste_cadres, cadres, racines, i_racine, erreur, table>>
    /\ UNCHANGED mef_vars

\* rest of the loop body: the bracket, if any, is kept and the origin advances
avance ==
    /\ pc = "corps"
    /\ liste_cadres' = IF cadre.cadre # None
                       THEN Append(liste_cadres, cadre.cadre)
                       ELSE liste_cadres
    /\ loc' = [loc EXCEPT !.val_0 = loc.val_0 + Abs(loc.D) * loc.max_iter]
    /\ pc' = "balayage"
    /\ UNCHANGED <<func, arg, cadre, fenetres, cadres, racines, i_racine, erreur, table>>
    /\ UNCHANGED mef_vars

\* the test after the loop: `if val_max == val_0: raise RuntimeError`
mt_leve(l) == l.val_max = l.val_0

\* loop head, condition false: the scan raises or returns its list
mt_sortie ==
    /\ pc = "balayage"
    /\ ~mt_condition(loc, liste_cadres)
    /\ IF mt_leve(loc)
       THEN /\ erreur' = "RuntimeError"
            /\ pc' = "leve"
            /\ UNCHANGED cadres
       ELSE /\ cadres' = liste_cadres
            /\ pc' = "raffinage"
            /\ UNCHANGED erreur
    /\ i_racine' = 0
    /\ UNCHANGED <<func, arg, loc, liste_cadres, cadre, fenetres, racines, table>>
    /\ UNCHANGED mef_vars

\* scipy.optimize.brentq(func, a, b) raises ValueError when func(a) and
\* func(b) have the same sign
brentq_leve(f, a, b) == Eval(f, a) * Eval(f, b) > 0

\* the values brentq(func, a, b) can return otherwise: a point of the
\* interval where func is zero or changes sign before the next point
brentq(f, a, b) ==
    {x \in Min(a, b)..Max(a, b) :
        \/ Eval(f, x) = 0
        \/ x + 1 <= Max(a, b) /\ Eval(f, x) * Eval(f, x + 1) < 0}

\* cadre_raffine that hands the first bracket to brentq at every turn
cadre_raffine_premier(liste, k) == liste[1]

\* the bracket handed to brentq by the i-th turn of the for loop
cadre_raffine(liste, k) == liste[k + 1]

\* one turn of `for i in range(len(cadres))`: brentq refines cadres[i]; its
\* exception is not caught
raffine ==
    /\ pc = "raffinage"
    /\ i_racine < Len(cadres)
    /\ LET c == cadre_raffine(cadres, i_racine)
       IN  IF brentq_leve(func, c[1], c[2])
           THEN /\ erreur' = "ValueError"
                /\ pc' = "leve"
                /\ UNCHANGED <<racines, i_racine>>
           ELSE /\ \E r \in brentq(func, c[1], c[2]) : racines' = Append(racines, r)
                /\ i_racine' = i_racine + 1
                /\ UNCHANGED <<pc, erreur>>
    /\ UNCHANGED <<func, arg, loc, liste_cadres, cadre, fenetres, cadres, table>>
    /\ UNCHANGED mef_vars

\* `return racines`
retour ==
    /\ pc = "raffinage"
    /\ i_racine >= Len(cadres)
    /\ pc' = "retour"
    /\ UNCHANGED <<func, arg, loc, liste_cadres, cadre, fenetres, cadres, racines,
                   i_racine, erreur, table>>
    /\ UNCHANGED mef_vars

-----------------------------------------------------------------------------
(* Calls of mt.trouver_premieres_racines *)

\* the tables of a function: TblLen values, none of them zero
Vals == {-2, -1, 1}

Tables == [1..TblLen -> Vals]

\* the functions given to mt.py: one table entry per energy unit
FuncsMt == {[w |-> 1, t |-> tb] : tb \in Tables}

\* the tolerances tried: 0.1 (the default) and 2
Rtols == {<<1, 10>>, <<2, 1>>}

ArgsMt ==
    [val_0 : 0..1, N : 1..MaxN, D : {-1, 0, 1}, rtol : Rtols,
     max_iter : 0..MaxIter, val_max : (MaxValMax - 1)..MaxValMax]

\* the locals of a scan that has not been called yet
LocVide == [val_0 |-> 0, N |-> 0, D |-> 0, rtol |-> <<0, 1>>, max_iter |-> 0,
            val_max |-> 0]

\* the state of the finite-element part while the root search runs
MefRepos ==
    /\ points = <<>>
    /\ grille = <<>>
    /\ masse = PasDeMatrice
    /\ laplacien = PasDeMatrice

TirInit ==
    /\ pc = "appel"
    /\ loc = LocVide
    /\ liste_cadres = <<>>
    /\ cadre = [cadre |-> None, probes |-> <<>>]
    /\ fenetres = {}
    /\ cadres = <<>>
    /\ racines = <<>>
    /\ i_racine = 0
    /\ erreur = ""
    /\ table = <<>>

InitMt ==
    /\ func \in FuncsMt
    /\ arg \in ArgsMt
    /\ TirInit
    /\ MefRepos

NextMt ==
    \/ mt_appel
    \/ mt_essai
    \/ avance
    \/ mt_sortie
    \/ raffine
    \/ retour

SpecMt == InitMt /\ [][NextMt]_vars

FairSpecMt == SpecMt /\ WF_vars(NextMt)

-----------------------------------------------------------------------------
(* methode_tir.py: trouver_premiers_cadres and trouver_premieres_racines,  *)
(* and OHQ_wrapper.solutions_mt, which calls them                          *)

\* solutions_mt, lines 127-135, hands its options to trouver_premieres_racines,
\* whose line 73 calls the scan with D=-0.01, rtol=0.1, max_iter=20, val_max=10
methode_tir_parametres(a) ==
    [val_0 |-> a.val_0, N |-> a.N, D |-> HardD, rtol |-> HardRtol,
     max_iter |-> HardMaxIter, val_max |-> HardValMax]

methode_tir_appel ==
    /\ pc = "appel"
    /\ racines' = <<>>
    /\ loc' = methode_tir_parametres(arg)
    /\ liste_cadres' = <<>>
    /\ pc' = "balayage"
    /\ UNCHANGED <<func, arg, cadre, fenetres, cadres, i_racine, erreur, table>>
    /\ UNCHANGED mef_vars

\* the condition of the while loop of trouver_premiers_cadres
methode_tir_condition(l, liste) == l.val_0 < l.val_max /\ Len(liste) < HardN

\* loop head, condition true: generateur_cadre is called on the window
methode_tir_essai ==
    /\ pc = "balayage"
    /\ methode_tir_condition(loc, liste_cadres)
    /\ cadre' = generateur_cadre(func, loc.val_0, loc.D, loc.rtol, loc.max_iter)
    /\ fenetres' = fenetres \cup {[val_0 |-> loc.val_0, cadre |-> cadre'.cadre]}
    /\ pc' = "corps"
    /\ UNCHANGED <<func, arg, loc, liste_cadres, cadres, racines, i_racine, erreur,
                   table>>
    /\ UNCHANGED mef_vars

\* loop head, condition false: `return liste_cadres`
methode_tir_sortie ==
    /\ pc = "balayage"
    /\ ~methode_tir_condition(loc, liste_cadres)
    /\ cadres' = liste_cadres
    /\ pc' = "raffinage"
    /\ i_racine' = 0
    /\ UNCHANGED <<func, arg, loc, liste_cadres, cadre, fenetres, racines, erreur,
                   table>>
    /\ UNCHANGED mef_vars

\* solutions_mt, line 138: np.empty((N_points, len(racines)))
forme_table(a, r) == <<a.N_points, Len(r)>>

\* solutions_mt, lines 138-144: the table is filled column by column and
\* returned with the roots
solutions_mt_retour ==
    /\ pc = "retour"
    /\ table' = forme_table(arg, racines)
    /\ pc' = "fini"
    /\ UNCHANGED <<func, arg, loc, liste_cadres, cadre, fenetres, cadres, racines,
                   i_racine, erreur>>
    /\ UNCHANGED mef_vars

\* the boundary functions given to solutions_mt: tables of 1 and -1, a
\* table entry covering one or one and a half scan windows
FuncsTir ==
    {[w |-> k, t |-> tb] : k \in {HardMaxIter, HardMaxIter + HardMaxIter \div 2},
                           tb \in [1..TblLen -> {-1, 1}]}

ArgsTir ==
    [val_0 : {HardValMax - 7 * HardMaxIter, HardValMax - 2 * HardMaxIter},
     N : 1..MaxN, D : {HardD, 1}, rtol : Rtols,
     max_iter : {MaxIter, HardMaxIter}, val_max : {MaxValMax, HardValMax},
     N_points : {3, 4}]

InitTir ==
    /\ func \in FuncsTir
    /\ arg \in ArgsTir
    /\ TirInit
    /\ MefRepos

NextTir ==
    \/ methode_tir_appel
    \/ methode_tir_essai
    \/ avance
    \/ methode_tir_sortie
    \/ raffine
    \/ retour
    \/ solutions_mt_retour

SpecTir == InitTir /\ [][NextTir]_vars

-----------------------------------------------------------------------------
(* Properties of the root search *)

\* trouver_premiers_cadres has returned its list to trouver_premieres_racines
ScanRetourne ==
    \/ pc \in {"raffinage", "retour", "fini"}
    \/ pc = "leve" /\ erreur = "ValueError"

\* C1: whenever solutions_mt returns, it returns exactly N_sols energies and a
\* table of N_points rows and N_sols columns, the scan having kept no more
\* than N_sols brackets.
C1_ExactementNSols ==
    pc = "fini" =>
        /\ Len(racines) = arg.N
        /\ table = <<arg.N_points, arg.N>>
        /\ Len(liste_cadres) <= arg.N

\* C2: a scan of mt.trouver_premiers_cadres that ends with fewer than N
\* brackets raises: it never returns a list of fewer than N brackets.
C2_LevePlafondAtteint ==
    ScanRetourne => Len(cadres) >= loc.N

\* C3: the scan runs with the D, rtol, max_iter and val_max that were given
\* to solutions_mt.
C3_OptionsTransmises ==
    pc # "appel" =>
        /\ loc.D = arg.D
        /\ loc.rtol = arg.rtol
        /\ loc.max_iter = arg.max_iter
        /\ loc.val_max = arg.val_max

\* func changes sign between the points x and y
Flip(f, x, y) == Eval(f, x) * Eval(f, y) < 0

\* the probes of the window of origin o after which func has changed sign
FlipsFenetre(o) ==
    {k \in 1..loc.max_iter : Flip(func, o + (k - 1) * loc.D, o + k * loc.D)}

\* no scanned window holds more than one sign flip
BienSepare == \A fe \in fenetres : Cardinality(FlipsFenetre(fe.val_0)) <= 1

\* the brackets are in strictly increasing order of scan origin (hence no
\* bracket appears twice)
CadresCroissants ==
    \A j, k \in 1..Len(cadres) : j < k => cadres[j][1] < cadres[k][1]

\* every scanned window that holds a sign flip has its bracket
AucuneRacineSautee ==
    \A fe \in fenetres :
        FlipsFenetre(fe.val_0) # {} => \E j \in 1..Len(cadres) : cadres[j][1] = fe.val_0

\* C4: for a function whose sign flips are well separated, the list returned
\* by trouver_premiers_cadres is in strictly increasing order of scan origin,
\* without duplicates, and holds a bracket for every sign flip scanned.
C4_CadresOrdonnesComplets ==
    (ScanRetourne /\ BienSepare) => (CadresCroissants /\ AucuneRacineSautee)

\* C8: trouver_premieres_racines returns one root per bracket, in bracket
\* order, each between the endpoints of its bracket and found by brentq on
\* that bracket; it returns nothing when brentq refuses a bracket whose
\* endpoint values have the same sign, the exception ending the call.
C8_UneRacineParCadre ==
    /\ pc = "retour" =>
          /\ Len(racines) = Len(cadres)
          /\ \A j \in 1..Len(cadres) :
                /\ racines[j] >= Min(cadres[j][1], cadres[j][2])
                /\ racines[j] <= Max(cadres[j][1], cadres[j][2])
                /\ racines[j] \in brentq(func, cadres[j][1], cadres[j][2])
                /\ Eval(func, cadres[j][1]) * Eval(func, cadres[j][2]) <= 0
    /\ (pc = "leve" /\ erreur = "ValueError") =>
          /\ i_racine < Len(cadres)
          /\ Eval(func, cadres[i_racine + 1][1]) * Eval(func, cadres[i_racine + 1][2]) > 0
    /\ (pc = "raffinage" /\ i_racine < Len(cadres)) =>
          \A j \in 1..i_racine :
              Eval(func, cadres[j][1]) * Eval(func, cadres[j][2]) <= 0

\* C8 witness: two brackets were refined into two roots and returned.
C8_Temoin ==
    /\ pc = "retour"
    /\ Len(cadres) = 2
    /\ Len(racines) = 2
    /\ cadres[1] # cadres[2]

\* a refiner's exception ended a call that had already refined a bracket
C8_TemoinErreur ==
    /\ pc = "leve"
    /\ erreur = "ValueError"
    /\ Len(racines) = 1

\* C9: the root search runs to completion: trouver_premiers_cadres
\* eventually returns or raises.
C9_Termine == <>(ScanRetourne \/ pc = "leve")

\* the near-negation test of generateur_cadre on its k-th probe
PresqueOppose(k) ==
    isclose(-Eval(func, loc.val_0), Eval(func, loc.val_0 + k * loc.D), loc.rtol)

\* C10: generateur_cadre probes val_0 + i*D for i = 1, 2, ... in that order,
\* at most max_iter times and never after a success; it returns
\* (val_0, val_0 + i*D) for the smallest i that passes the near-negation
\* test, and None exactly when no i in 1..max_iter passes it.
C10_PremierCadre ==
    pc = "corps" =>
        LET m == Len(cadre.probes)
        IN  /\ m <= loc.max_iter
            /\ \A k \in 1..m : cadre.probes[k] = loc.val_0 + k * loc.D
            /\ \A k \in 1..(m - 1) : ~PresqueOppose(k)
            /\ (cadre.cadre = None) <=> (\A k \in 1..loc.max_iter : ~PresqueOppose(k))
            /\ cadre.cadre # None =>
                  /\ m >= 1
                  /\ PresqueOppose(m)
                  /\ cadre.cadre = <<loc.val_0, loc.val_0 + m * loc.D>>
            /\ cadre.cadre = None => m = loc.max_iter

\* C10 witness: the first probe failed the test and the second passed it.
C10_Temoin ==
    /\ pc = "corps"
    /\ cadre.cadre # None
    /\ Len(cadre.probes) = 2
    /\ loc.max_iter > 2
    /\ ~PresqueOppose(1)

-----------------------------------------------------------------------------
(* mef.py: Grille *)

\* points[k], the index counted from 0 as in the source
Pt(p, k) == p[k + 1]

\* a fraction is <<numerator, denominator>>; denominator 0 is the result of
\* a division by zero
Frac(a, b) == <<a, b>>

FracAdd(x, y) == <<x[1] * y[2] + y[1] * x[2], x[2] * y[2]>>

FracEq(x, y) == x[2] # 0 /\ y[2] # 0 /\ x[1] * y[2] = y[1] * x[2]

\* non_ordonnes with the test `<= 0.0`: equal neighbours are refused
non_ordonnes_strict(p) == \E k \in 0..(Len(p) - 2) : Pt(p, k + 1) - Pt(p, k) <= 0

\* Grille.__init__: np.any((points[1:] - points[:-1]) < 0.0)
non_ordonnes(p) == \E k \in 0..(Len(p) - 2) : Pt(p, k + 1) - Pt(p, k) < 0

\* Grille(points)
Grille_init ==
    /\ pc = "Grille"
    /\ IF non_ordonnes(points)
       THEN /\ erreur' = "ValueError"
            /\ pc' = "leve"
            /\ UNCHANGED grille
       ELSE /\ grille' = points
            /\ pc' = "construite"
            /\ UNCHANGED erreur
    /\ UNCHANGED <<func, arg, loc, liste_cadres, cadre, fenetres, cadres, racines,
                   i_racine, table, points, masse, laplacien>>

\* Grille.__len__
Grille_len(g) == Len(g)

\* sp.dok_matrix((n - 2, n - 2)): every entry is zero
dok_matrix(n) == [n |-> n, e |-> [rc \in (0..(n - 1)) \X (0..(n - 1)) |-> Frac(0, 1)]]

\* matrice[r, c] = v
Affecte(m, r, c, v) == [m EXCEPT !.e[<<r, c>>] = v]

\* matrice_masse_interne: the value set on the diagonal for `site`
masse_diag(p, site) == Frac(Pt(p, site + 1) - Pt(p, site - 1), 3)

\* masse_valeur computed on the interval at the left of `site`
masse_valeur_gauche(p, site) == Frac(Pt(p, site) - Pt(p, site - 1), 6)

\* matrice_masse_interne: the value set beside the diagonal for `site`
masse_valeur(p, site) == Frac(Pt(p, site + 1) - Pt(p, site), 6)

\* matrice_masse_interne: `for site in range(1, n - 1)`, from `site` on
RECURSIVE masse_boucle_diag(_, _, _)
masse_boucle_diag(m, p, site) ==
    IF site < Grille_len(p) - 1
    THEN masse_boucle_diag(Affecte(m, site - 1, site - 1, masse_diag(p, site)),
                           p, site + 1)
    ELSE m

\* matrice_masse_interne: `for site in range(1, n - 2)`, from `site` on
RECURSIVE masse_boucle_cote(_, _, _)
masse_boucle_cote(m, p, site) ==
    IF site < Grille_len(p) - 2
    THEN masse_boucle_cote(
             Affecte(Affecte(m, site - 1, site, masse_valeur(p, site)),
                     site, site - 1, masse_valeur(p, site)),
             p, site + 1)
    ELSE m

matrice_masse_interne(p) ==
    masse_boucle_cote(masse_boucle_diag(dok_matrix(Grille_len(p) - 2), p, 1), p, 1)

\* matrice_laplacienne_interne: sum(1.0 / (points[i] - points[i + 1])
\* for i in [site - 1, site])
laplacien_diag(p, site) ==
    FracAdd(FracAdd(Frac(0, 1), Frac(1, Pt(p, site - 1) - Pt(p, site))),
            Frac(1, Pt(p, site) - Pt(p, site + 1)))

\* matrice_laplacienne_interne: 1.0 / (points[site + 1] - points[site])
laplacien_valeur(p, site) == Frac(1, Pt(p, site + 1) - Pt(p, site))

RECURSIVE laplacien_boucle_diag(_, _, _)
laplacien_boucle_diag(m, p, site) ==
    IF site < Grille_len(p) - 1
    THEN laplacien_boucle_diag(
             Affecte(m, site - 1, site - 1, laplacien_diag(p, site)), p, site + 1)
    ELSE m

RECURSIVE laplacien_boucle_cote(_, _, _)
laplacien_boucle_cote(m, p, site) ==
    IF site < Grille_len(p) - 2
    THEN laplacien_boucle_cote(
             Affecte(Affecte(m, site - 1, site, laplacien_valeur(p, site)),
                     site, site - 1, laplacien_valeur(p, site)),
             p, site + 1)
    ELSE m

matrice_laplacienne_interne(p) ==
    laplacien_boucle_cote(
        laplacien_boucle_diag(dok_matrix(Grille_len(p) - 2), p, 1), p, 1)

\* grille.matrice_masse_interne(), on a grid of at least 3 points
appel_masse ==
    /\ pc = "construite"
    /\ Grille_len(grille) >= 3
    /\ masse' = matrice_masse_interne(grille)
    /\ UNCHANGED <<pc, func, arg, loc, liste_cadres, cadre, fenetres, cadres,
                   racines, i_racine, erreur, table, points, grille, laplacien>>

\* grille.matrice_laplacienne_interne(), on a grid of at least 3 points
appel_laplacien ==
    /\ pc = "construite"
    /\ Grille_len(grille) >= 3
    /\ laplacien' = matrice_laplacienne_interne(grille)
    /\ UNCHANGED <<pc, func, arg, loc, liste_cadres, cadre, fenetres, cadres,
                   racines, i_racine, erreur, table, points, grille, masse>>

\* the arrays given to Grille: up to MaxPoints coordinates in 0..MaxCoord
Tableaux == UNION {[1..n -> 0..MaxCoord] : n \in 0..MaxPoints}

InitMef ==
    /\ points \in Tableaux
    /\ grille = <<>>
    /\ masse = PasDeMatrice
    /\ laplacien = PasDeMatrice
    /\ pc = "Grille"
    /\ func = [w |-> 1, t |-> <<1>>]
    /\ arg = LocVide
    /\ loc = LocVide
    /\ liste_cadres = <<>>
    /\ cadre = [cadre |-> None, probes |-> <<>>]
    /\ fenetres = {}
    /\ cadres = <<>>
    /\ racines = <<>>
    /\ i_racine = 0
    /\ erreur = ""
    /\ table = <<>>

NextMef ==
    \/ Grille_init
    \/ appel_masse
    \/ appel_laplacien

SpecMef == InitMef /\ [][NextMef]_vars

-----------------------------------------------------------------------------
(* Properties of the grid and of its matrices *)

\* C5: Grille(points) raises exactly when some adjacent pair decreases;
\* otherwise (equal neighbours included) the grid holds the points given and
\* its length is their number.
C5_GrilleValide ==
    /\ pc = "leve" <=>
          (pc # "Grille" /\ \E k \in 1..(Len(points) - 1) : points[k + 1] < points[k])
    /\ pc = "leve" => erreur = "ValueError"
    /\ pc = "construite" =>
          /\ grille = points
          /\ Grille_len(grille) = Len(points)

\* C5 witness: a grid with two equal neighbours was constructed.
C5_Temoin ==
    /\ pc = "construite"
    /\ Len(points) >= 3
    /\ \E k \in 1..(Len(points) - 1) : points[k + 1] = points[k]

\* the points are strictly increasing
Strict(p) == \A k \in 1..(Len(p) - 1) : p[k] < p[k + 1]

\* x[s] of the claim, s counted from 0
X(s) == grille[s + 1]

C6_MasseDiag(s) == Frac(X(s + 1) - X(s - 1), 3)

C6_MasseCote(s) == Frac(X(s + 1) - X(s), 6)

C6_LaplacienDiag(s) ==
    LET somme == FracAdd(Frac(1, X(s) - X(s - 1)), Frac(1, X(s + 1) - X(s)))
    IN  Frac(-somme[1], somme[2])

C6_LaplacienCote(s) == Frac(1, X(s + 1) - X(s))

\* the entry C6 gives on the diagonal (cote FALSE) or beside it (cote TRUE)
\* for the interior index s, in the mass or in the Laplacian matrix
C6_Entree(quoi, cote, s) ==
    IF quoi = "masse"
    THEN IF cote THEN C6_MasseCote(s) ELSE C6_MasseDiag(s)
    ELSE IF cote THEN C6_LaplacienCote(s) ELSE C6_LaplacienDiag(s)

\* m is the (N-2)x(N-2) symmetric tridiagonal matrix of the entries of C6,
\* the interior index s sitting on row s - 1
Tridiagonale(m, quoi) ==
    /\ m.n = Len(grille) - 2
    /\ DOMAIN m.e = (0..(m.n - 1)) \X (0..(m.n - 1))
    /\ \A r, c \in 0..(m.n - 1) :
          /\ m.e[<<r, c>>] = m.e[<<c, r>>]
          /\ r = c => FracEq(m.e[<<r, c>>], C6_Entree(quoi, FALSE, r + 1))
          /\ c = r + 1 => FracEq(m.e[<<r, c>>], C6_Entree(quoi, TRUE, r + 1))
          /\ (c > r + 1 \/ r > c + 1) => m.e[<<r, c>>] = Frac(0, 1)

\* the 3x3 matrix of diagonal d and off-diagonal c, as fractions
Matrice3(m, d, c) ==
    /\ m.n = 3
    /\ \A r, k \in 0..2 :
          FracEq(m.e[<<r, k>>],
                 IF r = k THEN d ELSE IF r = k + 1 \/ k = r + 1 THEN c ELSE Frac(0, 1))

\* C6: on a strictly increasing grid of N >= 3 points the mass and Laplacian
\* matrices are (N-2)x(N-2), symmetric and tridiagonal, with the entries
\* (x[s+1]-x[s-1])/3, (x[s+1]-x[s])/6 and -(1/(x[s]-x[s-1]) + 1/(x[s+1]-x[s])),
\* 1/(x[s+1]-x[s]); on the grid 0,1,2,3,4 they are the matrices of diagonal
\* 2/3 and -2 and of off-diagonal 1/6 and 1.
C6_MatricesTridiagonales ==
    (pc = "construite" /\ Len(grille) >= 3 /\ Strict(grille)) =>
        /\ masse # PasDeMatrice =>
              /\ Tridiagonale(masse, "masse")
              /\ grille = <<0, 1, 2, 3, 4>> => Matrice3(masse, Frac(2, 3), Frac(1, 6))
        /\ laplacien # PasDeMatrice =>
              /\ Tridiagonale(laplacien, "laplacien")
              /\ grille = <<0, 1, 2, 3, 4>> => Matrice3(laplacien, Frac(-2, 1), Frac(1, 1))

\* C6 witness: both matrices of a grid of unequal steps were computed.
C6_Temoin ==
    /\ pc = "construite"
    /\ Len(grille) >= 4
    /\ Strict(grille)
    /\ grille[2] - grille[1] # grille[3] - grille[2]
    /\ masse # PasDeMatrice
    /\ laplacien # PasDeMatrice

\* some entry of the matrix is the result of a division by zero
DivisionParZero(m) == \E rc \in DOMAIN m.e : m.e[rc][2] = 0

\* C7: on every grid of at least 3 points that Grille accepts, the two
\* matrices are computed without a division by zero.
C7_AssemblageSansErreur ==
    pc = "construite" =>
        /\ masse # PasDeMatrice => ~DivisionParZero(masse)
        /\ laplacien # PasDeMatrice => ~DivisionParZero(laplacien)

-----------------------------------------------------------------------------
(* The exception of the scan of mt.py *)

\* C11: mt.trouver_premiers_cadres raises only when fewer than N brackets
\* were found: a scan that has collected N brackets returns them, wherever
\* the scan origin stands with respect to val_max.
C11_LeveSeulementSiIncomplet ==
    (pc = "leve" /\ erreur = "RuntimeError") => Len(liste_cadres) < loc.N

=============================================================================
